---- MODULE Spec2Model ----
(***************************************************************************)
(* Model of gazu/client.py: the host/token configuration, the request      *)
(* executor (get, post, put, delete, upload), the status mapping and the   *)
(* generic CRUD helpers, run against a mocked HTTP server.                 *)
(*                                                                         *)
(* Python strings are sequences of one-character strings, so that          *)
(* stripping, joining, formatting and JSON parsing are computed.           *)
(***************************************************************************)
EXTENDS Integers, Sequences, FiniteSets, TLC

VARIABLES HOST, tokens, requests_session, store, call

vars == <<HOST, tokens, requests_session, store, call>>

---------------------------------------------------------------------------
(* Strings *)

Empty == <<>>

Slash == "/"

RECURSIVE Slashes(_)
Slashes(n) == IF n = 0 THEN Empty ELSE <<Slash>> \o Slashes(n - 1)

\* str.lstrip('/'): drops every leading slash
RECURSIVE lstrip(_)
lstrip(s) == IF s # Empty /\ Head(s) = Slash THEN lstrip(Tail(s)) ELSE s

\* str.rstrip('/'): drops every trailing slash
RECURSIVE rstrip(_)
rstrip(s) ==
    IF s # Empty /\ s[Len(s)] = Slash THEN rstrip(SubSeq(s, 1, Len(s) - 1)) ELSE s

\* "/".join(parts)
RECURSIVE SlashJoin(_)
SlashJoin(parts) ==
    IF parts = <<>> THEN Empty
    ELSE IF Len(parts) = 1 THEN parts[1]
    ELSE parts[1] \o <<Slash>> \o SlashJoin(Tail(parts))

\* a mutant of url_path_join: the segments are joined without being stripped
url_path_join_nostrip(items) == SlashJoin(items)

url_path_join(items) ==
    SlashJoin([i \in 1..Len(items) |-> rstrip(lstrip(items[i]))])

---------------------------------------------------------------------------
(* Python values: tagged records [t, v] *)

Num(n) == [t |-> "num", v |-> n]
Str(s) == [t |-> "str", v |-> s]
Arr(a) == [t |-> "arr", v |-> a]
Obj(f) == [t |-> "obj", v |-> f]
Bool(b) == [t |-> "bool", v |-> b]
None == [t |-> "none", v |-> 0]

EmptyDict == [k \in {} |-> None]

Dict1(k, x) == [j \in {k} |-> x]

\* d[k] = x on a dict: a later key replaces an earlier one
DictPut(d, k, x) == [j \in DOMAIN d \cup {k} |-> IF j = k THEN x ELSE d[j]]

---------------------------------------------------------------------------
(* JSON: json.loads and json.dumps on numbers, strings, arrays, objects *)

Quote == "\""

DigitChars == <<"0", "1", "2", "3", "4", "5", "6", "7", "8", "9">>

IsDigit(c) == \E i \in 1..10 : DigitChars[i] = c

DigitVal(c) == (CHOOSE i \in 1..10 : DigitChars[i] = c) - 1

ParseFail == [ok |-> FALSE, val |-> None, rest |-> Empty]

ParseOk(x, rest) == [ok |-> TRUE, val |-> x, rest |-> rest]

RECURSIVE skipws(_)
skipws(s) == IF s # Empty /\ Head(s) = " " THEN skipws(Tail(s)) ELSE s

\* digits after the first one of a number
RECURSIVE parse_digits(_, _)
parse_digits(s, acc) ==
    IF s # Empty /\ IsDigit(Head(s))
    THEN parse_digits(Tail(s), acc * 10 + DigitVal(Head(s)))
    ELSE ParseOk(Num(acc), s)

parse_number(s) ==
    IF Head(s) = "0" THEN ParseOk(Num(0), Tail(s))
    ELSE parse_digits(Tail(s), DigitVal(Head(s)))

\* the characters of a string literal after its opening quote
RECURSIVE parse_string(_, _)
parse_string(s, acc) ==
    IF s = Empty THEN ParseFail
    ELSE IF Head(s) = Quote THEN ParseOk(Str(acc), Tail(s))
    ELSE parse_string(Tail(s), Append(acc, Head(s)))

RECURSIVE parse_value(_)
RECURSIVE parse_elems(_, _)
RECURSIVE parse_members(_, _)

parse_elems(s, acc) ==
    LET e == parse_value(s)
        u == skipws(e.rest)
    IN  IF ~e.ok \/ u = Empty THEN ParseFail
        ELSE IF Head(u) = "," THEN parse_elems(Tail(u), Append(acc, e.val))
        ELSE IF Head(u) = "]" THEN ParseOk(Arr(Append(acc, e.val)), Tail(u))
        ELSE ParseFail

parse_members(s, acc) ==
    LET t == skipws(s)
        k == IF t # Empty /\ Head(t) = Quote
             THEN parse_string(Tail(t), Empty) ELSE ParseFail
        c == skipws(k.rest)
        e == IF k.ok /\ c # Empty /\ Head(c) = ":"
             THEN parse_value(Tail(c)) ELSE ParseFail
        u == skipws(e.rest)
        d == DictPut(acc, k.val.v, e.val)
    IN  IF ~e.ok \/ u = Empty THEN ParseFail
        ELSE IF Head(u) = "," THEN parse_members(Tail(u), d)
        ELSE IF Head(u) = "}" THEN ParseOk(Obj(d), Tail(u))
        ELSE ParseFail

parse_value(s) ==
    LET t == skipws(s)
    IN  IF t = Empty THEN ParseFail
        ELSE IF IsDigit(Head(t)) THEN parse_number(t)
        ELSE IF Head(t) = Quote THEN parse_string(Tail(t), Empty)
        ELSE IF Head(t) = "["
        THEN IF skipws(Tail(t)) # Empty /\ Head(skipws(Tail(t))) = "]"
             THEN ParseOk(Arr(<<>>), Tail(skipws(Tail(t))))
             ELSE parse_elems(Tail(t), <<>>)
        ELSE IF Head(t) = "{"
        THEN IF skipws(Tail(t)) # Empty /\ Head(skipws(Tail(t))) = "}"
             THEN ParseOk(Obj(EmptyDict), Tail(skipws(Tail(t))))
             ELSE parse_members(Tail(t), EmptyDict)
        ELSE ParseFail

\* json.loads(text): the whole text must be one value
loads(text) ==
    LET r == parse_value(text)
    IN  IF r.ok /\ skipws(r.rest) = Empty THEN r ELSE ParseFail

RECURSIVE digits(_)
digits(n) ==
    IF n < 10 THEN <<DigitChars[n + 1]>>
    ELSE digits(n \div 10) \o <<DigitChars[(n % 10) + 1]>>

RECURSIVE dumps(_)
RECURSIVE dumps_items(_)
RECURSIVE dumps_members(_, _)

dumps_items(a) ==
    IF Len(a) = 1 THEN dumps(a[1])
    ELSE dumps(a[1]) \o <<",", " ">> \o dumps_items(Tail(a))

dumps_members(d, keys) ==
    LET k == CHOOSE j \in keys : TRUE
        m == <<Quote>> \o k \o <<Quote, ":", " ">> \o dumps(d[k])
    IN  IF keys = {k} THEN m
        ELSE m \o <<",", " ">> \o dumps_members(d, keys \ {k})

\* json.dumps(value) with the default separators
dumps(x) ==
    IF x.t = "num" THEN digits(x.v)
    ELSE IF x.t = "str" THEN <<Quote>> \o x.v \o <<Quote>>
    ELSE IF x.t = "arr"
    THEN IF x.v = <<>> THEN <<"[", "]">> ELSE <<"[">> \o dumps_items(x.v) \o <<"]">>
    ELSE IF DOMAIN x.v = {} THEN <<"{", "}">>
    ELSE <<"{">> \o dumps_members(x.v, DOMAIN x.v) \o <<"}">>

---------------------------------------------------------------------------
(* Module state of gazu/client.py *)

DefaultHost ==
    <<"h", "t", "t", "p", ":", "/", "/", "p", "i", "p", "e", "l", "i", "n", "e", "-", "s", "e", "r", "v", "e", "r", ".", "u", "n", "i", "t", ".", "l", "o", "c", "a", "l", "/">>

TokenKeys == {"access_token", "refresh_token"}

DefaultTokens == [k \in TokenKeys |-> Empty]

\* requests.Session(): the adapter mounted for 'http://'
DefaultSession == [adapter |-> "HTTPAdapter", heuristic |-> None]

\* CacheControlAdapter(heuristic=ExpiresAfter(seconds=seconds))
CacheControlAdapter(seconds) ==
    [adapter |-> "CacheControlAdapter", heuristic |-> Num(seconds)]

get_host == HOST

Bearer == <<"B", "e", "a", "r", "e", "r", " ">>

make_auth_header ==
    IF "access_token" \in DOMAIN tokens
    THEN Dict1("Authorization", Bearer \o tokens["access_token"])
    ELSE [k \in {} |-> Empty]

NoHeaders == [k \in {} |-> Empty]

\* a mutant of get_full_url: the host the module was loaded with is used
get_full_url_default(path) == url_path_join(<<DefaultHost, path>>)

get_full_url(path) == url_path_join(<<get_host, path>>)

---------------------------------------------------------------------------
(* Outcomes of a call: a returned value or a raised exception *)

Return(x) == [kind |-> "return", val |-> x]

Raise(kind, x) == [kind |-> kind, val |-> x]

\* the status codes check_status maps to an exception
Mapped == {404, 403, 401, 422, 500, 502}

TypedErrors ==
    {"RouteNotFoundException", "NotAllowedException",
     "NotAuthenticatedException", "ServerErrorException"}

\* a mutant of check_status: 422 is not mapped
check_status_no422(status_code, path) ==
    IF status_code = 404 THEN Raise("RouteNotFoundException", Str(path))
    ELSE IF status_code = 403 THEN Raise("NotAllowedException", Str(path))
    ELSE IF status_code \in {401} THEN Raise("NotAuthenticatedException", Str(path))
    ELSE IF status_code \in {500, 502} THEN Raise("ServerErrorException", Str(path))
    ELSE Return(Num(status_code))

check_status(status_code, path) ==
    IF status_code = 404 THEN Raise("RouteNotFoundException", Str(path))
    ELSE IF status_code = 403 THEN Raise("NotAllowedException", Str(path))
    ELSE IF status_code \in {401, 422} THEN Raise("NotAuthenticatedException", Str(path))
    ELSE IF status_code \in {500, 502} THEN Raise("ServerErrorException", Str(path))
    ELSE Return(Num(status_code))

\* response.json(): the body parsed, ValueError when it is not JSON
response_json(response) ==
    LET r == loads(response.text)
    IN  IF r.ok THEN Return(r.val) ELSE Raise("ValueError", None)

\* response.text
response_text(response) == Return(Str(response.text))

---------------------------------------------------------------------------
(* Request executor: each operation yields the requests it sent and its outcome *)

Request(method, url, headers, json, files) ==
    [method |-> method, url |-> url, headers |-> headers,
     json |-> json, files |-> files]

Run(reqs, out) == [reqs |-> reqs, out |-> out]

\* a mutant of get: a server error is retried once
get_retry(path, response) ==
    LET req == Request("GET", get_full_url(path), make_auth_header, Empty, Empty)
        st == check_status(response.status_code, path)
    IN  IF st.kind = "ServerErrorException" THEN Run(<<req, req>>, st)
        ELSE IF st.kind # "return" THEN Run(<<req>>, st)
        ELSE Run(<<req>>, response_json(response))

\* a mutant of get: the raw text is returned
get_text(path, response) ==
    LET req == Request("GET", get_full_url(path), make_auth_header, Empty, Empty)
        st == check_status(response.status_code, path)
    IN  Run(<<req>>, IF st.kind # "return" THEN st ELSE response_text(response))

get(path, response) ==
    LET req == Request("GET", get_full_url(path), make_auth_header, Empty, Empty)
        st == check_status(response.status_code, path)
    IN  Run(<<req>>, IF st.kind # "return" THEN st ELSE response_json(response))

post(path, data, response) ==
    LET req == Request("POST", get_full_url(path), make_auth_header, dumps(data), Empty)
        st == check_status(response.status_code, path)
    IN  Run(<<req>>, IF st.kind # "return" THEN st ELSE response_json(response))

\* a mutant of put: the body is parsed before the status is checked
put_parse_first(path, data, response) ==
    LET req == Request("PUT", get_full_url(path), make_auth_header, dumps(data), Empty)
        body == response_json(response)
        st == check_status(response.status_code, path)
    IN  Run(<<req>>, IF body.kind # "return" THEN body
                     ELSE IF st.kind # "return" THEN st ELSE body)

put(path, data, response) ==
    LET req == Request("PUT", get_full_url(path), make_auth_header, dumps(data), Empty)
        st == check_status(response.status_code, path)
    IN  Run(<<req>>, IF st.kind # "return" THEN st ELSE response_json(response))

\* a mutant of delete: the body is parsed as in get
delete_json(path, response) ==
    LET req == Request("DELETE", get_full_url(path), make_auth_header, Empty, Empty)
        st == check_status(response.status_code, path)
    IN  Run(<<req>>, IF st.kind # "return" THEN st ELSE response_json(response))

delete(path, response) ==
    LET req == Request("DELETE", get_full_url(path), make_auth_header, Empty, Empty)
        st == check_status(response.status_code, path)
    IN  Run(<<req>>, IF st.kind # "return" THEN st ELSE response_text(response))

\* the status is not checked and no headers are passed
upload(path, file_path, response) ==
    LET req == Request("POST", get_full_url(path), NoHeaders, Empty, file_path)
    IN  Run(<<req>>, response_json(response))

\* a mutant of host_is_up: every status below 400 counts as up
host_is_up_below400(response) ==
    LET req == Request("HEAD", HOST, NoHeaders, Empty, Empty)
    IN  Run(<<req>>, Return(Bool(response.status_code < 400)))

\* the adapter is built, then the name session, which the module does not
\* define, is looked up: NameError, and nothing is mounted
set_cache_expiration_delay(seconds) ==
    [adapter |-> CacheControlAdapter(seconds),
     session |-> requests_session,
     out |-> Raise("NameError", Str(<<"s", "e", "s", "s", "i", "o", "n">>))]

host_is_up(response) ==
    LET req == Request("HEAD", HOST, NoHeaders, Empty, Empty)
    IN  Run(<<req>>, Return(Bool(response.status_code = 200)))

---------------------------------------------------------------------------
(* CRUD helpers *)

Data == <<"d", "a", "t", "a">>

Version == <<"v", "e", "r", "s", "i", "o", "n">>

fetch_all(model, response) == get(url_path_join(<<Data, model>>), response)

fetch_one(model, id, response) == get(url_path_join(<<Data, model, id>>), response)

\* a mutant of create: the record is sent with put
create_put(model, data, response) == put(url_path_join(<<Data, model>>), data, response)

create(model, data, response) == post(url_path_join(<<Data, model>>), data, response)

\* get('')['version']
get_api_version(response) ==
    LET r == get(Empty, response)
        x == r.out.val
    IN  IF r.out.kind # "return" THEN r
        ELSE IF x.t # "obj" THEN Run(r.reqs, Raise("TypeError", None))
        ELSE IF Version \notin DOMAIN x.v THEN Run(r.reqs, Raise("KeyError", Str(Version)))
        ELSE Run(r.reqs, Return(x.v[Version]))

---------------------------------------------------------------------------
(* Inputs *)

Id == <<"i", "d">>

Name == <<"n", "a", "m", "e">>

\* status codes a server answers with: the six mapped ones and three others
Statuses == {200, 204, 400, 401, 403, 404, 422, 500, 502}

\* response bodies: empty, truncated JSON, an object, an array of records
Bodies ==
    {Empty, <<"[">>, dumps(Obj(Dict1(Version, Num(1)))),
     dumps(Arr(<<Obj(Dict1(Id, Num(1)))>>))}

Responses == [status_code : Statuses, text : Bodies]

\* expiration delays, in seconds
Delays == {60, 3600}

HostArgs == {<<"h", "/">>}

Paths == {<<"/", "b", "/">>}

Models == {<<"s">>}

Ids == {<<"7">>}

Files == {<<"f">>}

TokenX == <<"X">>

TokenY == <<"Y">>

\* arguments of set_tokens: no key, a refresh token alone, an access token
\* alone, and a full pair
TokenArgs ==
    {[k \in {} |-> Empty], Dict1("refresh_token", TokenX),
     Dict1("access_token", TokenX),
     [k \in TokenKeys |-> IF k = "access_token" THEN TokenY ELSE TokenX]}

Records ==
    {Obj(Dict1(Name, Str(<<"S", "1">>))),
     Obj(DictPut(Dict1(Name, Str(<<"S">>)), Id, Num(12)))}

PostData == {Obj(Dict1(Name, Str(<<"S", "1">>)))}

\* hosts and paths with up to MaxSlash slashes on either side
MaxSlash == 1

Wrapped(cores) ==
    {Slashes(n) \o c \o Slashes(m) : c \in cores, n \in 0..MaxSlash, m \in 0..MaxSlash}

UrlHosts == Wrapped({<<"h", ":", "/", "/", "x">>, Empty})

UrlPaths == Wrapped({<<"d", "/", "s">>, <<"v">>, Empty})

OkResponses == {[status_code |-> 200, text |-> <<"[", "]">>]}

CrudModels == {<<"s">>, <<"e", "?", "n", "=", "1">>, <<"p", "/", "q">>}

CrudIds == {<<"7">>, <<"a", "-", "1">>}

---------------------------------------------------------------------------
(* Get-or-create helpers of the shot module (new_episode, new_sequence,     *)
(* new_shot) and the server they run against                               *)

\* distinct entity names per collection
MaxNames == 2

\* the server refuses to hold more than this many records under one key
MaxCreated == 2

Kinds == {"episodes", "sequences", "shots"}

EntityNames == {<<"N", DigitChars[n + 1]>> : n \in 1..MaxNames}

\* a natural key: the collection and the name within the parent scope
EntityKeys == Kinds \X EntityNames

ProjectId == <<"p", "1">>

EpisodeId == <<"e", "1">>

SequenceId == <<"s", "1">>

\* data/<collection>?<filter>: the model name given to fetch_all
QueryModel(kind, name) ==
    IF kind = "episodes"
    THEN <<"e", "p", "i", "s", "o", "d", "e", "s", "?", "p", "r", "o", "j", "e", "c", "t", "_", "i", "d", "=">> \o ProjectId \o <<"&", "n", "a", "m", "e", "=">> \o name
    ELSE IF kind = "sequences"
    THEN <<"s", "e", "q", "u", "e", "n", "c", "e", "s", "?", "e", "p", "i", "s", "o", "d", "e", "_", "i", "d", "=">> \o EpisodeId \o <<"&", "n", "a", "m", "e", "=">> \o name
    ELSE <<"s", "h", "o", "t", "s", "/", "a", "l", "l", "?", "s", "e", "q", "u", "e", "n", "c", "e", "_", "i", "d", "=">> \o SequenceId \o <<"&", "n", "a", "m", "e", "=">> \o name

KindPath(kind) ==
    IF kind = "episodes" THEN <<"e", "p", "i", "s", "o", "d", "e", "s">>
    ELSE IF kind = "sequences" THEN <<"s", "e", "q", "u", "e", "n", "c", "e", "s">>
    ELSE <<"s", "h", "o", "t", "s">>

\* data/projects/<project_id>/<collection>
CreatePath(kind) == url_path_join(<<<<"d", "a", "t", "a", "/", "p", "r", "o", "j", "e", "c", "t", "s">>, ProjectId, KindPath(kind)>>)

EntityRecord(name, n) == Obj(DictPut(Dict1(Name, Str(name)), Id, Num(n)))

RECURSIVE Matches(_, _)
Matches(name, n) ==
    IF n = 0 THEN <<>> ELSE Append(Matches(name, n - 1), EntityRecord(name, n))

\* the server's answer to the filtered GET: the records it holds under the key
ServerList(key, status_code) ==
    [status_code |-> status_code,
     text |-> IF status_code \in Mapped THEN Empty
              ELSE dumps(Arr(Matches(key[2], store[key])))]

\* the server's answer to a creation POST: the record it stores
ServerCreate(key, status_code) ==
    [status_code |-> status_code,
     text |-> IF status_code \in Mapped THEN Empty
              ELSE dumps(EntityRecord(key[2], store[key] + 1))]

\* Python truthiness of a value, as in "result or []"
Truthy(x) ==
    IF x.t = "num" THEN x.v # 0
    ELSE IF x.t \in {"str", "arr"} THEN x.v # <<>>
    ELSE IF x.t = "obj" THEN DOMAIN x.v # {}
    ELSE IF x.t = "bool" THEN x.v
    ELSE FALSE

\* query by natural key; return the first match, else post a new record
new_entity(kind, name, list_status, create_status) ==
    LET key == <<kind, name>>
        listed == ServerList(key, list_status)
        found == fetch_all(QueryModel(kind, name), listed)
        created == ServerCreate(key, create_status)
        posted == post(CreatePath(kind), Obj(Dict1(Name, Str(name))), created)
    IN  IF found.out.kind # "return"
        THEN [reqs |-> found.reqs, out |-> found.out, resps |-> <<listed>>]
        ELSE IF ~Truthy(found.out.val)
        THEN [reqs |-> found.reqs \o posted.reqs, out |-> posted.out,
              resps |-> <<listed, created>>]
        ELSE IF found.out.val.t = "arr"
        THEN [reqs |-> found.reqs, out |-> Return(found.out.val.v[1]),
              resps |-> <<listed>>]
        ELSE [reqs |-> found.reqs, out |-> Raise("TypeError", None),
              resps |-> <<listed>>]

new_episode(name, list_status, create_status) ==
    new_entity("episodes", name, list_status, create_status)

new_sequence(name, list_status, create_status) ==
    new_entity("sequences", name, list_status, create_status)

new_shot(name, list_status, create_status) ==
    new_entity("shots", name, list_status, create_status)

\* the server stores the record of every creation POST it answers without error
Stored(key, run) ==
    IF Len(run.resps) = 2 /\ run.resps[2].status_code \notin Mapped
    THEN [store EXCEPT ![key] = @ + 1]
    ELSE store

EntityStatuses == {200, 401, 500}

---------------------------------------------------------------------------
(* Calls into the module *)

Called(op, args, resps, run) ==
    [op |-> op, args |-> args, resps |-> resps, reqs |-> run.reqs, out |-> run.out]

NoCall == Called("import", <<>>, <<>>, Run(<<>>, Return(None)))

Init ==
    /\ HOST = DefaultHost
    /\ tokens = DefaultTokens
    /\ requests_session = DefaultSession
    /\ store = [k \in EntityKeys |-> 0]
    /\ call = NoCall

GetHost ==
    /\ call' = Called("get_host", <<>>, <<>>, Run(<<>>, Return(Str(get_host))))
    /\ UNCHANGED <<HOST, tokens, store, requests_session>>

SetHost(new_host) ==
    /\ HOST' = new_host
    /\ call' = Called("set_host", <<new_host>>, <<>>, Run(<<>>, Return(None)))
    /\ UNCHANGED <<tokens, store, requests_session>>

\* a mutant of SetTokens: the new mapping is merged into the stored one
SetTokens_merge(new_tokens) ==
    /\ tokens' = [k \in DOMAIN tokens \cup DOMAIN new_tokens |->
                      IF k \in DOMAIN new_tokens THEN new_tokens[k] ELSE tokens[k]]
    /\ call' = Called("set_tokens", <<new_tokens>>, <<>>, Run(<<>>, Return(None)))
    /\ UNCHANGED <<HOST, store, requests_session>>

SetTokens(new_tokens) ==
    /\ tokens' = new_tokens
    /\ call' = Called("set_tokens", <<new_tokens>>, <<>>, Run(<<>>, Return(None)))
    /\ UNCHANGED <<HOST, store, requests_session>>

MakeAuthHeader ==
    /\ call' = Called("make_auth_header", <<>>, <<>>, Run(<<>>, Return(Obj(make_auth_header))))
    /\ UNCHANGED <<HOST, tokens, store, requests_session>>

SetCacheExpirationDelay(seconds) ==
    /\ requests_session' = set_cache_expiration_delay(seconds).session
    /\ call' = Called("set_cache_expiration_delay", <<seconds>>, <<>>,
                      Run(<<>>, set_cache_expiration_delay(seconds).out))
    /\ UNCHANGED <<HOST, tokens, store>>

HostIsUp(response) ==
    /\ call' = Called("host_is_up", <<>>, <<response>>, host_is_up(response))
    /\ UNCHANGED <<HOST, tokens, store, requests_session>>

\* a mutant of Get: a call that raises NotAuthenticatedException resets the tokens
Get_reset(path, response) ==
    /\ call' = Called("get", <<path>>, <<response>>, get(path, response))
    /\ tokens' = IF get(path, response).out.kind = "NotAuthenticatedException"
                 THEN DefaultTokens ELSE tokens
    /\ UNCHANGED <<HOST, store, requests_session>>

Get(path, response) ==
    /\ call' = Called("get", <<path>>, <<response>>, get(path, response))
    /\ UNCHANGED <<HOST, tokens, store, requests_session>>

Post(path, data, response) ==
    /\ call' = Called("post", <<path, data>>, <<response>>, post(path, data, response))
    /\ UNCHANGED <<HOST, tokens, store, requests_session>>

Put(path, data, response) ==
    /\ call' = Called("put", <<path, data>>, <<response>>, put(path, data, response))
    /\ UNCHANGED <<HOST, tokens, store, requests_session>>

Delete(path, response) ==
    /\ call' = Called("delete", <<path>>, <<response>>, delete(path, response))
    /\ UNCHANGED <<HOST, tokens, store, requests_session>>

Upload(path, file_path, response) ==
    /\ call' = Called("upload", <<path, file_path>>, <<response>>,
                      upload(path, file_path, response))
    /\ UNCHANGED <<HOST, tokens, store, requests_session>>

FetchAll(model, response) ==
    /\ call' = Called("fetch_all", <<model>>, <<response>>, fetch_all(model, response))
    /\ UNCHANGED <<HOST, tokens, store, requests_session>>

FetchOne(model, id, response) ==
    /\ call' = Called("fetch_one", <<model, id>>, <<response>>,
                      fetch_one(model, id, response))
    /\ UNCHANGED <<HOST, tokens, store, requests_session>>

Create(model, data, response) ==
    /\ call' = Called("create", <<model, data>>, <<response>>,
                      create(model, data, response))
    /\ UNCHANGED <<HOST, tokens, store, requests_session>>

GetApiVersion(response) ==
    /\ call' = Called("get_api_version", <<>>, <<response>>, get_api_version(response))
    /\ UNCHANGED <<HOST, tokens, store, requests_session>>

Next ==
    \/ GetHost
    \/ \E d \in Delays : SetCacheExpirationDelay(d)
    \/ \E h \in HostArgs : SetHost(h)
    \/ \E t \in TokenArgs : SetTokens(t)
    \/ MakeAuthHeader
    \/ \E r \in Responses : HostIsUp(r)
    \/ \E p \in Paths, r \in Responses : Get(p, r)
    \/ \E p \in Paths, d \in PostData, r \in Responses : Post(p, d, r)
    \/ \E p \in Paths, d \in PostData, r \in Responses : Put(p, d, r)
    \/ \E p \in Paths, r \in Responses : Delete(p, r)
    \/ \E p \in Paths, f \in Files, r \in Responses : Upload(p, f, r)
    \/ \E m \in Models, r \in Responses : FetchAll(m, r)
    \/ \E m \in Models, i \in Ids, r \in Responses : FetchOne(m, i, r)
    \/ \E m \in Models, d \in Records, r \in Responses : Create(m, d, r)
    \/ \E r \in Responses : GetApiVersion(r)

Spec == Init /\ [][Next]_vars

\* URL construction: every host and path shape, one response
NextUrl ==
    \/ GetHost
    \/ \E h \in UrlHosts : SetHost(h)
    \/ \E r \in OkResponses : HostIsUp(r)
    \/ \E p \in UrlPaths, r \in OkResponses : Get(p, r)
    \/ \E p \in UrlPaths, d \in PostData, r \in OkResponses : Post(p, d, r)
    \/ \E p \in UrlPaths, d \in PostData, r \in OkResponses : Put(p, d, r)
    \/ \E p \in UrlPaths, r \in OkResponses : Delete(p, r)
    \/ \E p \in UrlPaths, f \in Files, r \in OkResponses : Upload(p, f, r)
    \/ \E r \in OkResponses : GetApiVersion(r)

SpecUrl == Init /\ [][NextUrl]_vars

\* CRUD helpers: every model, id, record and response
NextCrud ==
    \/ \E h \in HostArgs : SetHost(h)
    \/ \E m \in CrudModels, r \in Responses : FetchAll(m, r)
    \/ \E m \in CrudModels, i \in CrudIds, r \in Responses : FetchOne(m, i, r)
    \/ \E m \in CrudModels, d \in Records, r \in Responses : Create(m, d, r)

SpecCrud == Init /\ [][NextCrud]_vars

\* a helper call: the server answers, stores what was posted, the call ends
Served(op, key, run) ==
    /\ Len(run.resps) = 2 => store[key] < MaxCreated
    /\ call' = Called(op, <<key[2]>>, run.resps, run)
    /\ store' = Stored(key, run)
    /\ UNCHANGED <<HOST, tokens, requests_session>>

NewEpisode(name, list_status, create_status) ==
    Served("new_episode", <<"episodes", name>>,
           new_episode(name, list_status, create_status))

NewSequence(name, list_status, create_status) ==
    Served("new_sequence", <<"sequences", name>>,
           new_sequence(name, list_status, create_status))

NewShot(name, list_status, create_status) ==
    Served("new_shot", <<"shots", name>>,
           new_shot(name, list_status, create_status))

\* get-or-create helpers against a server that stores what is posted
NextEntity ==
    \/ \E n \in EntityNames, g \in EntityStatuses, c \in EntityStatuses :
           NewEpisode(n, g, c)
    \/ \E n \in EntityNames, g \in EntityStatuses, c \in EntityStatuses :
           NewSequence(n, g, c)
    \/ \E n \in EntityNames, g \in EntityStatuses, c \in EntityStatuses :
           NewShot(n, g, c)

SpecEntity == Init /\ [][NextEntity]_vars

---------------------------------------------------------------------------
(* Properties *)

ExecutorOps == {"get", "post", "put", "delete"}

Status == call.resps[1].status_code

Body == call.resps[1].text

ErrorFor(status_code) ==
    IF status_code = 404 THEN "RouteNotFoundException"
    ELSE IF status_code = 403 THEN "NotAllowedException"
    ELSE IF status_code \in {401, 422} THEN "NotAuthenticatedException"
    ELSE "ServerErrorException"

\* C1, as stated: get, post, put and delete raise the typed error of a mapped
\* status, and for every other status raise nothing and return the body
\* (parsed for get, post and put).
C1_AsStated ==
    call.op \in ExecutorOps =>
        IF Status \in Mapped THEN call.out.kind = ErrorFor(Status)
        ELSE /\ call.out.kind = "return"
             /\ IF call.op = "delete" THEN call.out.val = Str(Body)
                ELSE loads(Body).ok /\ call.out.val = loads(Body).val

\* C1: get, post, put and delete raise the typed error of a mapped status;
\* for every other status they raise no typed error, delete returns the text
\* unchanged, and get, post and put return the parsed body when the body is
\* JSON and fail with a parse error (ValueError) when it is not.
C1_StatusMapping ==
    call.op \in ExecutorOps =>
        IF Status \in Mapped THEN call.out.kind = ErrorFor(Status)
        ELSE /\ call.out.kind \notin TypedErrors
             /\ IF call.op = "delete" THEN call.out = Return(Str(Body))
                ELSE IF loads(Body).ok THEN call.out = Return(loads(Body).val)
                ELSE call.out.kind = "ValueError"

\* a put answered 400 with a JSON body returns the parsed body
C1_Witness ==
    /\ call.op = "put"
    /\ Status = 400
    /\ call.out.kind = "return"
    /\ call.out.val.t = "arr"
    /\ Len(call.out.val.v) = 1

AccessTokenSet == "access_token" \in DOMAIN tokens /\ tokens["access_token"] # Empty

\* C2: make_auth_header() returns {} when no access token is set, the state
\* before any set_tokens call included, and {"Authorization": "Bearer X"} when
\* the access token is X.
C2_AuthHeader ==
    call.op = "make_auth_header" =>
        IF AccessTokenSet
        THEN call.out = Return(Obj(Dict1("Authorization", Bearer \o tokens["access_token"])))
        ELSE call.out = Return(Obj(NoHeaders))

CoreOps == {"get", "post", "put", "delete", "upload"}

\* C3: every request sent by get, post, put, delete or upload carries the
\* Authorization header of the current access token when there is one, and
\* no Authorization header when there is none.
C3_AuthOnEveryRequest ==
    call.op \in CoreOps =>
        \A i \in 1..Len(call.reqs) :
            /\ AccessTokenSet =>
                   call.reqs[i].headers = Dict1("Authorization", Bearer \o tokens["access_token"])
            /\ "access_token" \notin DOMAIN tokens =>
                   "Authorization" \notin DOMAIN call.reqs[i].headers

\* s without its leading and trailing slashes: from its first to its last
\* character that is not a slash
Stripped(s) ==
    LET keep == {k \in 1..Len(s) : s[k] # Slash}
        first == CHOOSE k \in keep : \A j \in keep : k <= j
        last == CHOOSE k \in keep : \A j \in keep : j <= k
    IN  IF keep = {} THEN Empty ELSE SubSeq(s, first, last)

EndsWithSlash(s) == s # Empty /\ s[Len(s)] = Slash

\* C4, as stated: get(path) requests the stripped host, a slash and the
\* stripped path, and the URL never ends with a slash.
C4_AsStated ==
    call.op = "get" =>
        /\ call.reqs[1].url = Stripped(HOST) \o <<Slash>> \o Stripped(call.args[1])
        /\ ~EndsWithSlash(call.reqs[1].url)

\* C4: get(path) requests the stripped host, a slash and the stripped path;
\* the slash at the join is never doubled, and the URL ends with a slash
\* exactly when the stripped path is empty, as in get('').
C4_UrlJoin ==
    call.op = "get" =>
        LET b == Stripped(HOST)
            p == Stripped(call.args[1])
        IN  /\ call.reqs[1].url = b \o <<Slash>> \o p
            /\ ~EndsWithSlash(b)
            /\ p = Empty \/ Head(p) # Slash
            /\ EndsWithSlash(call.reqs[1].url) <=> (p = Empty)

\* the host "h://x/" and the path "/d/s/" give "h://x/d/s"
C4_Witness ==
    /\ call.op = "get"
    /\ HOST = <<"h", ":", "/", "/", "x", "/">>
    /\ call.args[1] = <<"/", "d", "/", "s", "/">>
    /\ call.reqs[1].url = <<"h", ":", "/", "/", "x", "/", "d", "/", "s">>

NewOps == {"new_episode", "new_sequence", "new_shot"}

PostsIn(reqs) == {i \in 1..Len(reqs) : reqs[i].method = "POST"}

\* C5: a get-or-create helper issues its creation POST exactly when the
\* filtered GET returned an empty collection; when the GET returned matches
\* it returns the first one unchanged and posts nothing; so the server never
\* holds more than one record under a natural key.
C5_GetOrCreate ==
    /\ \A k \in EntityKeys : store[k] <= 1
    /\ call.op \in NewOps =>
           LET listed == call.resps[1]
               found == loads(listed.text)
               empty == listed.status_code \notin Mapped /\ found.ok /\ found.val = Arr(<<>>)
           IN  /\ call.reqs[1].method = "GET"
               /\ PostsIn(call.reqs) = IF empty THEN {2} ELSE {}
               /\ (listed.status_code \notin Mapped /\ found.ok /\ ~empty) =>
                      call.out = Return(found.val.v[1])

\* a second new_shot call with the same name found the stored record and
\* returned it without a POST
C5_Witness ==
    /\ call.op = "new_shot"
    /\ store[<<"shots", call.args[1]>>] = 1
    /\ Len(call.reqs) = 1
    /\ call.out = Return(EntityRecord(call.args[1], 1))

\* the outcome of a request whose parsed body is handed back as it is
Passed ==
    IF Status \in Mapped THEN call.out.kind = ErrorFor(Status)
    ELSE IF loads(Body).ok THEN call.out = Return(loads(Body).val)
    ELSE call.out.kind = "ValueError"

DataUrl(model) == Stripped(HOST) \o <<Slash>> \o Data \o <<Slash>> \o model

\* C6: fetch_all(model) sends one GET to data/<model>; fetch_one(model, id)
\* sends one GET to data/<model>/<id> and raises RouteNotFoundException on
\* 404; create(model, data) sends one POST to data/<model> whose JSON body
\* reads back as data; each returns the parsed body of its response as it is.
C6_CrudHelpers ==
    /\ call.op = "fetch_all" =>
           /\ Len(call.reqs) = 1
           /\ call.reqs[1].method = "GET"
           /\ call.reqs[1].url = DataUrl(call.args[1])
           /\ Passed
    /\ call.op = "fetch_one" =>
           /\ Len(call.reqs) = 1
           /\ call.reqs[1].method = "GET"
           /\ call.reqs[1].url = DataUrl(call.args[1]) \o <<Slash>> \o call.args[2]
           /\ Status = 404 => call.out.kind = "RouteNotFoundException"
           /\ Passed
    /\ call.op = "create" =>
           /\ Len(call.reqs) = 1
           /\ call.reqs[1].method = "POST"
           /\ call.reqs[1].url = DataUrl(call.args[1])
           /\ loads(call.reqs[1].json) = ParseOk(call.args[2], Empty)
           /\ Passed

\* create posted a record with two fields and returned the server's object
C6_Witness ==
    /\ call.op = "create"
    /\ Status = 200
    /\ Cardinality(DOMAIN call.args[2].v) = 2
    /\ loads(call.reqs[1].json).val = call.args[2]
    /\ call.out.kind = "return"
    /\ call.out.val.t = "obj"

HeaderFor(t) ==
    IF "access_token" \in DOMAIN t
    THEN Dict1("Authorization", Bearer \o t["access_token"])
    ELSE NoHeaders

\* C7: set_tokens(t) replaces the stored mapping by t, whatever was stored:
\* the header built afterwards is the one of t alone (none when t has no
\* access token), and get, post, put and delete send the header of the
\* mapping stored by the last set_tokens call.
C7_LastWriteWins ==
    [][/\ call'.op = "set_tokens" =>
              /\ tokens' = call'.args[1]
              /\ make_auth_header' = HeaderFor(call'.args[1])
       /\ call'.op # "set_tokens" => tokens' = tokens
       /\ call'.op = "make_auth_header" => call'.out = Return(Obj(HeaderFor(tokens)))
       /\ call'.op \in ExecutorOps =>
              \A i \in 1..Len(call'.reqs) : call'.reqs[i].headers = HeaderFor(tokens)]_vars

\* after set_tokens with a refresh token alone, a get carries no header
C7_Witness ==
    /\ call.op = "get"
    /\ tokens = Dict1("refresh_token", TokenX)
    /\ call.reqs[1].headers = NoHeaders

\* C8: set_host(h) stores h as it is, get_host() returns the stored host, no
\* other call changes it, and get, post, put, delete and upload request the
\* URL joined from the host stored by the last set_host call.
C8_LastHostWins ==
    [][/\ call'.op = "set_host" => HOST' = call'.args[1] /\ get_host' = call'.args[1]
       /\ call'.op # "set_host" => HOST' = HOST
       /\ call'.op = "get_host" => call'.out = Return(Str(HOST))
       /\ call'.op \in CoreOps =>
              \A i \in 1..Len(call'.reqs) :
                  call'.reqs[i].url =
                      Stripped(HOST) \o <<Slash>> \o Stripped(call'.args[1])]_vars

\* after set_host("/h://x"), an upload is sent to that host
C8_Witness ==
    /\ call.op = "upload"
    /\ HOST = <<"/", "h", ":", "/", "/", "x">>
    /\ call.reqs[1].url = <<"h", ":", "/", "/", "x", "/", "v">>

\* C9: for every status that is not mapped to an error, delete returns the
\* response text as a string, an empty one included; what get, post and put
\* return is the body parsed as JSON.
C9_DeleteRawText ==
    /\ (call.op = "delete" /\ Status \notin Mapped) => call.out = Return(Str(Body))
    /\ (call.op \in {"get", "post", "put"} /\ call.out.kind = "return") =>
           loads(Body).ok /\ call.out.val = loads(Body).val

\* a delete answered 204 with an empty body returns the empty string
C9_Witness ==
    /\ call.op = "delete"
    /\ Status = 204
    /\ Body = Empty
    /\ call.out = Return(Str(Empty))

SingleRequestOps ==
    {"get", "post", "put", "delete", "fetch_all", "fetch_one", "create",
     "get_api_version"}

\* C10: a call of get, post, put, delete, fetch_all, fetch_one, create or
\* get_api_version sends exactly one request and reads one response,
\* whatever the status and whether it returns or raises.
C10_SingleRequest ==
    call.op \in SingleRequestOps => Len(call.reqs) = 1 /\ Len(call.resps) = 1

\* get_api_version answered 500 raised ServerErrorException after one request
C10_Witness ==
    /\ call.op = "get_api_version"
    /\ Status = 500
    /\ call.out.kind = "ServerErrorException"
    /\ Len(call.reqs) = 1

\* C11: get, post, put, delete and upload raise the typed error of a
\* response whose status is 404, 403, 401, 422, 500 or 502; none of them
\* returns a value for such a response.
C11_ErrorsSurface ==
    (call.op \in CoreOps /\ Status \in Mapped) =>
        call.out.kind = ErrorFor(Status) /\ call.out.kind # "return"

\* C12: host_is_up() sends one HEAD request to the configured host and
\* returns True when the status is 200 and False for every other status,
\* raising nothing.
C12_HostIsUp ==
    call.op = "host_is_up" =>
        /\ Len(call.reqs) = 1
        /\ call.reqs[1].method = "HEAD"
        /\ call.reqs[1].url = HOST
        /\ call.out.kind = "return"
        /\ call.out.val.t = "bool"
        /\ call.out.val.v <=> (Status = 200)

\* host_is_up answered 404 returned False and raised nothing
C12_Witness ==
    /\ call.op = "host_is_up"
    /\ Status = 404
    /\ call.out = Return(Bool(FALSE))

\* C13: set_cache_expiration_delay(seconds) completes without error and
\* leaves the session that get, post, put and delete use with a cache adapter
\* of that expiration delay mounted.
C13_CacheInstalled ==
    call.op = "set_cache_expiration_delay" =>
        /\ call.out.kind = "return"
        /\ requests_session = CacheControlAdapter(call.args[1])

RequestOps ==
    {"get", "post", "put", "delete", "upload", "host_is_up", "fetch_all",
     "fetch_one", "create"}

\* C14: the host and the tokens change only through set_host and set_tokens:
\* a request operation, whether it returns or raises, leaves both as they
\* were, set_host leaves the tokens and set_tokens leaves the host.
C14_ConfigFrame ==
    [][/\ call'.op \in RequestOps => HOST' = HOST /\ tokens' = tokens
       /\ call'.op = "set_host" => tokens' = tokens
       /\ call'.op = "set_tokens" => HOST' = HOST
       /\ (HOST' # HOST \/ tokens' # tokens) => call'.op \in {"set_host", "set_tokens"}]_vars

\* a get that raised NotAuthenticatedException, with the host and the access
\* token set before it still in place
C14_Witness ==
    /\ call.op = "get"
    /\ call.out.kind = "NotAuthenticatedException"
    /\ HOST = <<"h", "/">>
    /\ tokens = Dict1("access_token", TokenX)

\* C15: get, post and put check the status before they parse the body: a
\* mapped status raises its typed error even when the body is empty or not
\* JSON, and any other status with such a body fails with a parse error
\* (ValueError) and returns nothing.
C15_StatusBeforeParse ==
    (call.op \in {"get", "post", "put"} /\ ~loads(Body).ok) =>
        IF Status \in Mapped THEN call.out.kind = ErrorFor(Status)
        ELSE call.out.kind = "ValueError"

\* a put answered 502 with a truncated body raised ServerErrorException
C15_Witness ==
    /\ call.op = "put"
    /\ Status = 502
    /\ Body = <<"[">>
    /\ call.out.kind = "ServerErrorException"

====
